---- MODULE Spec2Model ----
(***************************************************************************)
(* Model of the iTerm2 remote-control client (src/src/connection.rs):      *)
(* ITerm2Connection::connect, send_message, receive_message and the five   *)
(* typed operations create_window, create_tab, send_text, list_sessions    *)
(* and get_windows, driven by one caller that awaits every call to         *)
(* completion (each operation borrows the connection `&mut self`).         *)
(*                                                                         *)
(* The peer (the iTerm2 API server) and the WebSocket transport are the    *)
(* environment: the server answers a written command with one frame of any *)
(* type and content, or closes the stream; a transport write or read may   *)
(* fail.  Error values carry the variant of `enum Error` (src/src/error.rs)*)
(* as `kind`, the fixed part of the message as `text` and the formatted    *)
(* argument of the message as `detail`.                                    *)
(***************************************************************************)
EXTENDS Integers, Sequences, FiniteSets, TLC

\* ------------------------------------------------------------------ bounds
\* Number of typed operations the caller invokes on one connection.
MaxOps == 3

\* ------------------------------------------------------- program constants
\* connection.rs:77  `if response.status() != 101`
SWITCHING_PROTOCOLS == 101

\* connection.rs:41-43  the fixed endpoint path
socket_path == "~/Library/Application Support/iTerm2/private/socket"

\* ------------------------------------------------------------ input domains
ProfileNames == {"Default", "bogus"}
WindowIds    == {"w1", "w2"}
SessionIds   == {"s1", "s2"}
Texts        == {"ls", "ls\r"}
NONE         == "<none>"

\* Status enumerations of the response schema (the values the server can put
\* in a CreateTabResponse / SendTextResponse).
CreateTabStatus == {"OK", "INVALID_PROFILE_NAME", "INVALID_WINDOW_ID"}
SendTextStatus  == {"OK", "SESSION_NOT_FOUND"}

\* Status codes a handshake response can carry, and the reason phrase
\* `StatusCode::canonical_reason()` knows for each (599 has none).
HandshakeStatuses == {101, 200, 401, 599}

\* ----------------------------------------------------------------- results
NoValue == [unique_identifier |-> NONE, list |-> <<>>, unit |-> FALSE]

Ok(v) == [ok |-> TRUE, kind |-> "Ok", text |-> "", detail |-> "", value |-> v]

Err(kind, text, detail) ==
    [ok |-> FALSE, kind |-> kind, text |-> text, detail |-> detail, value |-> NoValue]

\* Ok(()) of send_message and send_text
OkUnit == Ok([NoValue EXCEPT !.unit = TRUE])

\* The result of a call that has not returned.
Pending == [ok |-> FALSE, kind |-> "Pending", text |-> "", detail |-> "", value |-> NoValue]

\* A SessionSummary with only unique_identifier set.
SessionSummary(id) == Ok([NoValue EXCEPT !.unique_identifier = id])

VecResult(v) == Ok([NoValue EXCEPT !.list = v])

\* --------------------------------------------------------- client messages
\* ClientOriginatedMessage with exactly one request set.  An optional field
\* that was never set holds NONE.
CreateTabRequest(profile_name, window_id) ==
    [submessage |-> "create_tab_request", profile_name |-> profile_name,
     window_id |-> window_id, session |-> NONE, text |-> NONE]

SendTextRequest(session_id, text) ==
    [submessage |-> "send_text_request", profile_name |-> NONE,
     window_id |-> NONE, session |-> session_id, text |-> text]

ListSessionsRequest ==
    [submessage |-> "list_sessions_request", profile_name |-> NONE,
     window_id |-> NONE, session |-> NONE, text |-> NONE]

NoMessage ==
    [submessage |-> "none", profile_name |-> NONE,
     window_id |-> NONE, session |-> NONE, text |-> NONE]

\* --------------------------------------------------------- server messages
Summary(id) == [unique_identifier |-> id]

Window1 == [window_id |-> "w1", tabs |-> << <<Summary("s1")>> >>]
Window2 == [window_id |-> "w2", tabs |-> << <<Summary("s1")>>, <<Summary("s2")>> >>]

WindowLists == {<<>>, <<Window1>>, <<Window2, Window1>>}
BuriedLists == {<<>>, <<Summary("s2")>>, <<Summary("s2"), Summary("s1")>>}

\* ServerOriginatedMessage::new(): no submessage set; the accessors of an
\* unset submessage give the schema defaults.
DefaultMessage ==
    [submessage |-> "none", status |-> "OK", session_id |-> "",
     windows |-> <<>>, buried_sessions |-> <<>>]

CreateTabResponse(status, session_id) ==
    [DefaultMessage EXCEPT !.submessage = "create_tab_response",
                           !.status = status, !.session_id = session_id]

SendTextResponse(status) ==
    [DefaultMessage EXCEPT !.submessage = "send_text_response", !.status = status]

ListSessionsResponse(windows, buried) ==
    [DefaultMessage EXCEPT !.submessage = "list_sessions_response",
                           !.windows = windows, !.buried_sessions = buried]

\* A well-formed message of a variant no operation of this client expects
\* (a notification, an error string, ...).
OtherResponse == [DefaultMessage EXCEPT !.submessage = "other_response"]

ServerMessages ==
    {CreateTabResponse(st, id) : st \in CreateTabStatus, id \in SessionIds}
    \cup {SendTextResponse(st) : st \in SendTextStatus}
    \cup {ListSessionsResponse(w, b) : w \in WindowLists, b \in BuriedLists}
    \cup {OtherResponse}

\* ------------------------------------------------------------------ frames
\* What `self.websocket.next()` can deliver.  A Binary frame carries bytes:
\* either the encoding of a server message (defect "none") or bytes that do
\* not conform to the schema.  "Invalid" is a frame the WebSocket layer itself
\* rejects (it surfaces as Some(Err(e))).  `re` is the number of the command
\* the server sent the frame in reply to.
Defects       == {"truncated", "wrong_tag", "corrupt_field"}
NonBinary     == {"Text", "Ping", "Pong", "Close"}

Bytes(defect, msg) == [defect |-> defect, msg |-> msg]

Frame(ftype, data, re) == [ftype |-> ftype, data |-> data, re |-> re]

NoFrame == Frame("none", Bytes("none", DefaultMessage), 0)

ReplyFrames(re) ==
    {Frame("Binary", Bytes("none", m), re) : m \in ServerMessages}
    \cup {Frame("Binary", Bytes(d, DefaultMessage), re) : d \in Defects}
    \cup {Frame(t, Bytes("none", DefaultMessage), re) : t \in NonBinary \cup {"Invalid"}}

\* Items of the stream: None, Some(Ok(frame)), Some(Err(e)).
StreamNone      == [tag |-> "None", frame |-> NoFrame, e |-> ""]
StreamOk(f)     == [tag |-> "SomeOk", frame |-> f, e |-> ""]
StreamErr(f, e) == [tag |-> "SomeErr", frame |-> f, e |-> e]

NoItem == [tag |-> "none", frame |-> NoFrame, e |-> ""]

\* ------------------------------------------------------------- connect()
\* The handshake as `client_async` reports it: Err(e), or Ok with the
\* response it read.
HandshakeOutcomes ==
    {[err |-> TRUE, status |-> 0]}
    \cup {[err |-> FALSE, status |-> s] : s \in HandshakeStatuses}

\* connection.rs:81-84  `response.status().canonical_reason()`
canonical_reason(status) ==
    CASE status = 101 -> "Switching Protocols"
      [] status = 200 -> "OK"
      [] status = 401 -> "Unauthorized"
      [] OTHER -> NONE

\* connection.rs:84  `.unwrap_or("Unknown reason")`
reason_or_unknown(status) ==
    IF canonical_reason(status) = NONE THEN "Unknown reason"
    ELSE canonical_reason(status)

\* connection.rs:57-68  the headers of the handshake request
HandshakeHeaders ==
    {<<"Host", "localhost">>, <<"Upgrade", "websocket">>, <<"Connection", "Upgrade">>,
     <<"Sec-WebSocket-Key", "dGhlIHNhbXBsZSBub25jZQ==">>,
     <<"Sec-WebSocket-Version", "13">>,
     <<"Sec-WebSocket-Protocol", "api.iterm2.com">>,
     <<"Origin", "ws://localhost/">>,
     <<"x-iterm2-library-version", "rust 1.0">>}

ConnOk ==
    [ok |-> TRUE, kind |-> "Ok", text |-> "", path |-> "", status |-> 0, reason |-> ""]

ConnErr(text, path, status, reason) ==
    [ok |-> FALSE, kind |-> "Connection", text |-> text, path |-> path,
     status |-> status, reason |-> reason]

ConnPending ==
    [ok |-> FALSE, kind |-> "Pending", text |-> "", path |-> "", status |-> 0, reason |-> ""]

\* connect() without the test that the endpoint exists.
connect_outcome_nocheck(exists, stream_ok, hs) ==
    IF ~stream_ok THEN
        [result |-> ConnErr("Failed to connect to Unix domain socket: ", "", 0, ""),
         connects |-> 1, requests |-> <<>>, response |-> 0]
    ELSE IF hs.err THEN
        [result |-> ConnErr("WebSocket handshake failed: ", "", 0, ""),
         connects |-> 1, requests |-> <<HandshakeHeaders>>, response |-> 0]
    ELSE IF hs.status # SWITCHING_PROTOCOLS THEN
        [result |-> ConnErr("WebSocket handshake failed with status ", "",
                            hs.status, reason_or_unknown(hs.status)),
         connects |-> 1, requests |-> <<HandshakeHeaders>>, response |-> hs.status]
    ELSE
        [result |-> ConnOk,
         connects |-> 1, requests |-> <<HandshakeHeaders>>, response |-> hs.status]

\* connect() accepting every status below 300 instead of 101 only.
connect_outcome_anystatus(exists, stream_ok, hs) ==
    IF ~exists THEN
        [result |-> ConnErr("iTerm2 Unix domain socket not found at: ", socket_path, 0, ""),
         connects |-> 0, requests |-> <<>>, response |-> 0]
    ELSE IF ~stream_ok THEN
        [result |-> ConnErr("Failed to connect to Unix domain socket: ", "", 0, ""),
         connects |-> 1, requests |-> <<>>, response |-> 0]
    ELSE IF hs.err THEN
        [result |-> ConnErr("WebSocket handshake failed: ", "", 0, ""),
         connects |-> 1, requests |-> <<HandshakeHeaders>>, response |-> 0]
    ELSE IF hs.status >= 300 THEN
        [result |-> ConnErr("WebSocket handshake failed with status ", "",
                            hs.status, reason_or_unknown(hs.status)),
         connects |-> 1, requests |-> <<HandshakeHeaders>>, response |-> hs.status]
    ELSE
        [result |-> ConnOk,
         connects |-> 1, requests |-> <<HandshakeHeaders>>, response |-> hs.status]

\* connect() trying the socket a second time and going on to the handshake
\* when UnixStream::connect fails.
connect_outcome_retry(exists, stream_ok, hs) ==
    IF ~exists THEN
        [result |-> ConnErr("iTerm2 Unix domain socket not found at: ", socket_path, 0, ""),
         connects |-> 0, requests |-> <<>>, response |-> 0]
    ELSE IF hs.err THEN
        [result |-> ConnErr("WebSocket handshake failed: ", "", 0, ""),
         connects |-> IF stream_ok THEN 1 ELSE 2,
         requests |-> <<HandshakeHeaders>>, response |-> 0]
    ELSE IF hs.status # SWITCHING_PROTOCOLS THEN
        [result |-> ConnErr("WebSocket handshake failed with status ", "",
                            hs.status, reason_or_unknown(hs.status)),
         connects |-> IF stream_ok THEN 1 ELSE 2,
         requests |-> <<HandshakeHeaders>>, response |-> hs.status]
    ELSE
        [result |-> ConnOk,
         connects |-> IF stream_ok THEN 1 ELSE 2,
         requests |-> <<HandshakeHeaders>>, response |-> hs.status]

\* connect() returning the connection although the handshake failed.
connect_outcome_skip_handshake(exists, stream_ok, hs) ==
    IF ~exists THEN
        [result |-> ConnErr("iTerm2 Unix domain socket not found at: ", socket_path, 0, ""),
         connects |-> 0, requests |-> <<>>, response |-> 0]
    ELSE IF ~stream_ok THEN
        [result |-> ConnErr("Failed to connect to Unix domain socket: ", "", 0, ""),
         connects |-> 1, requests |-> <<>>, response |-> 0]
    ELSE IF hs.err THEN
        [result |-> ConnOk,
         connects |-> 1, requests |-> <<HandshakeHeaders>>, response |-> 0]
    ELSE IF hs.status # SWITCHING_PROTOCOLS THEN
        [result |-> ConnErr("WebSocket handshake failed with status ", "",
                            hs.status, reason_or_unknown(hs.status)),
         connects |-> 1, requests |-> <<HandshakeHeaders>>, response |-> hs.status]
    ELSE
        [result |-> ConnOk,
         connects |-> 1, requests |-> <<HandshakeHeaders>>, response |-> hs.status]

\* What one call of connect() does and returns, given whether the endpoint
\* path exists, whether UnixStream::connect succeeds and what the handshake
\* yields: the result, the number of socket connects attempted, the handshake
\* requests handed to the transport and the status of the response read.
connect_outcome(exists, stream_ok, hs) ==
    IF ~exists THEN
        [result |-> ConnErr("iTerm2 Unix domain socket not found at: ", socket_path, 0, ""),
         connects |-> 0, requests |-> <<>>, response |-> 0]
    ELSE IF ~stream_ok THEN
        [result |-> ConnErr("Failed to connect to Unix domain socket: ", "", 0, ""),
         connects |-> 1, requests |-> <<>>, response |-> 0]
    ELSE IF hs.err THEN
        [result |-> ConnErr("WebSocket handshake failed: ", "", 0, ""),
         connects |-> 1, requests |-> <<HandshakeHeaders>>, response |-> 0]
    ELSE IF hs.status # SWITCHING_PROTOCOLS THEN
        [result |-> ConnErr("WebSocket handshake failed with status ", "",
                            hs.status, reason_or_unknown(hs.status)),
         connects |-> 1, requests |-> <<HandshakeHeaders>>, response |-> hs.status]
    ELSE
        [result |-> ConnOk,
         connects |-> 1, requests |-> <<HandshakeHeaders>>, response |-> hs.status]

\* ---------------------------------------------- send_message / receive_message
\* send_message with the result of the send dropped instead of propagated.
send_message_swallow(werr) == OkUnit

\* send_message with the send error wrapped as Error::Connection.
send_message_as_connection(werr) ==
    IF werr = "" THEN OkUnit ELSE Err("Connection", "Failed to send: ", werr)

\* connection.rs:91-97.  `werr` is what the transport's send reports: "" when
\* the frame was written, else the error, which `?` converts to
\* Error::WebSocket.  (Encoding a message into a Vec does not fail.)
send_message(werr) ==
    IF werr = "" THEN OkUnit ELSE Err("WebSocket", "WebSocket error: ", werr)

\* `ServerOriginatedMessage::parse_from_bytes`: bytes that do not conform to
\* the schema fail with the parse diagnostic; conforming bytes give the
\* message they encode.
parse_from_bytes(data) ==
    IF data.defect = "none" THEN Ok(data.msg)
    ELSE Err("Protobuf", "Protobuf error: ", data.defect)

\* receive_message with `parse_from_bytes(&data).unwrap_or_default()`.
receive_message_default(item) ==
    CASE item.tag = "SomeOk" /\ item.frame.ftype = "Binary" ->
            IF parse_from_bytes(item.frame.data).ok
            THEN parse_from_bytes(item.frame.data) ELSE Ok(DefaultMessage)
      [] item.tag = "SomeOk" /\ item.frame.ftype # "Binary" ->
            Err("Connection", "Unexpected message type: ", item.frame.ftype)
      [] item.tag = "SomeErr" ->
            Err("WebSocket", "WebSocket error: ", item.e)
      [] OTHER ->
            Err("Connection", "Connection closed", "")

\* receive_message with the end of the stream reported like a read error.
receive_message_eof_as_error(item) ==
    CASE item.tag = "SomeOk" /\ item.frame.ftype = "Binary" ->
            parse_from_bytes(item.frame.data)
      [] item.tag = "SomeOk" /\ item.frame.ftype # "Binary" ->
            Err("Connection", "Unexpected message type: ", item.frame.ftype)
      [] OTHER ->
            Err("WebSocket", "WebSocket error: ", item.e)

\* receive_message taking a frame that is not Binary for an empty message.
receive_message_nonbinary_default(item) ==
    CASE item.tag = "SomeOk" /\ item.frame.ftype = "Binary" ->
            parse_from_bytes(item.frame.data)
      [] item.tag = "SomeOk" /\ item.frame.ftype # "Binary" ->
            Ok(DefaultMessage)
      [] item.tag = "SomeErr" ->
            Err("WebSocket", "WebSocket error: ", item.e)
      [] OTHER ->
            Err("Connection", "Connection closed", "")

\* connection.rs:99-111
receive_message(item) ==
    CASE item.tag = "SomeOk" /\ item.frame.ftype = "Binary" ->
            parse_from_bytes(item.frame.data)
      [] item.tag = "SomeOk" /\ item.frame.ftype # "Binary" ->
            Err("Connection", "Unexpected message type: ", item.frame.ftype)
      [] item.tag = "SomeErr" ->
            Err("WebSocket", "WebSocket error: ", item.e)
      [] OTHER ->
            Err("Connection", "Connection closed", "")

\* ------------------------------------------- interpreting the response
\* create_window returning a fresh SessionSummary without the session id.
create_window_interpret_noid(response) ==
    IF response.submessage = "create_tab_response" THEN
        IF response.status = "OK" THEN SessionSummary("")
        ELSE Err("Api", "Create window failed: ", response.status)
    ELSE Err("Api", "Expected create tab response", "")

\* connection.rs:149-163
create_window_interpret(response) ==
    IF response.submessage = "create_tab_response" THEN
        IF response.status = "OK" THEN SessionSummary(response.session_id)
        ELSE Err("Api", "Create window failed: ", response.status)
    ELSE Err("Api", "Expected create tab response", "")

\* create_tab without the test of the status.
create_tab_interpret_nostatus(response) ==
    IF response.submessage = "create_tab_response" THEN
        SessionSummary(response.session_id)
    ELSE Err("Api", "Expected create tab response", "")

\* connection.rs:214-228
create_tab_interpret(response) ==
    IF response.submessage = "create_tab_response" THEN
        IF response.status = "OK" THEN SessionSummary(response.session_id)
        ELSE Err("Api", "Create tab failed: ", response.status)
    ELSE Err("Api", "Expected create tab response", "")

\* send_text without the test of the response's variant.
send_text_interpret_nocheck(response) ==
    IF response.status = "OK" THEN OkUnit
    ELSE Err("Api", "Send text failed: ", response.status)

\* connection.rs:273-285
send_text_interpret(response) ==
    IF response.submessage = "send_text_response" THEN
        IF response.status = "OK" THEN OkUnit
        ELSE Err("Api", "Send text failed: ", response.status)
    ELSE Err("Api", "Expected send text response", "")

\* list_sessions that also collects the sessions of the first window's
\* first tab.
list_sessions_interpret_flatten(response) ==
    IF response.submessage = "list_sessions_response" THEN
        VecResult((IF response.windows # <<>> THEN response.windows[1].tabs[1] ELSE <<>>)
                  \o response.buried_sessions)
    ELSE Err("Api", "Expected list sessions response", "")

\* connection.rs:325-338: the loop over the windows adds nothing.
list_sessions_interpret(response) ==
    IF response.submessage = "list_sessions_response" THEN
        VecResult(<<>> \o response.buried_sessions)
    ELSE Err("Api", "Expected list sessions response", "")

\* get_windows giving an empty list for a response of another variant.
get_windows_interpret_empty(response) ==
    IF response.submessage = "list_sessions_response" THEN
        VecResult(response.windows)
    ELSE VecResult(<<>>)

\* connection.rs:378-383
get_windows_interpret(response) ==
    IF response.submessage = "list_sessions_response" THEN
        VecResult(response.windows)
    ELSE Err("Api", "Expected list sessions response", "")

interpret(op, response) ==
    CASE op = "create_window" -> create_window_interpret(response)
      [] op = "create_tab"    -> create_tab_interpret(response)
      [] op = "send_text"     -> send_text_interpret(response)
      [] op = "list_sessions" -> list_sessions_interpret(response)
      [] OTHER                -> get_windows_interpret(response)

\* `let response = self.receive_message().await?;` followed by the
\* interpretation of the response: what the operation returns for the item
\* the stream delivered.
operation_result(op, item) ==
    LET r == receive_message(item) IN
    IF r.ok THEN interpret(op, r.value) ELSE r

\* ------------------------------------------------------------ Authenticator
\* Values the environment variables ITERM2_COOKIE and ITERM2_KEY can hold
\* (NONE: the variable is not set).
Cookies == {"cookie1"}
Keys    == {"key1"}

\* auth.rs:4-7, 10-15: the Authenticator holds what the two variables held
\* when it was constructed.
Authenticator(cookie, key) == [made |-> TRUE, cookie |-> cookie, key |-> key]

NoAuthenticator == [made |-> FALSE, cookie |-> NONE, key |-> NONE]

\* Option<String> holding "<name>: <value>".
SomeHeader(name, value) == [some |-> TRUE, name |-> name, value |-> value]
NoHeader == [some |-> FALSE, name |-> "", value |-> ""]
NoHeaderCall == [some |-> FALSE, name |-> "not called", value |-> ""]

\* What a call of has_credentials returned; NoCredsCall before any call.
CredsResult(b) == [called |-> TRUE, value |-> b]
NoCredsCall == [called |-> FALSE, value |-> FALSE]

\* has_credentials looking at the cookie only.
has_credentials_cookie_only(self) == self.cookie # NONE

\* auth.rs:17-19
has_credentials(self) == self.cookie # NONE \/ self.key # NONE

\* get_auth_header testing the key before the cookie.
get_auth_header_key_first(self) ==
    IF self.key # NONE THEN SomeHeader("iTerm2-Auth-Key", self.key)
    ELSE IF self.cookie # NONE THEN SomeHeader("iTerm2-Auth-Cookie", self.cookie)
    ELSE NoHeader

\* auth.rs:21-29
get_auth_header(self) ==
    IF self.cookie # NONE THEN SomeHeader("iTerm2-Auth-Cookie", self.cookie)
    ELSE IF self.key # NONE THEN SomeHeader("iTerm2-Auth-Key", self.key)
    ELSE NoHeader

\* ------------------------------------------------- api-parser: the cache
\* Contents the Python source file can hold; NONE: the file cannot be read.
Sources == {"", "class A", "class A: doc", "def f"}

InitialSource == "class A"

\* main.rs:139-149  PythonClass, cut down to its name and its docstring
\* (an Option<String>: NONE is None).
PythonClass(name, docstring) == [name |-> name, docstring |-> docstring]

\* main.rs:374-379
FileApi(classes, enums, functions) ==
    [classes |-> classes, enums |-> enums, functions |-> functions]

\* main.rs:397-401, 415-419
EmptyFileApi == FileApi(<<>>, <<>>, <<>>)

\* main.rs:425-446: what find_class_definitions and find_function_definitions
\* collect from the syntax tree of the source.
extract(source_code) ==
    CASE source_code = "class A"      -> FileApi(<<PythonClass("A", NONE)>>, <<>>, <<>>)
      [] source_code = "class A: doc" -> FileApi(<<PythonClass("A", "doc")>>, <<>>, <<>>)
      [] source_code = "def f"        -> FileApi(<<>>, <<>>, <<"f">>)
      [] OTHER                        -> EmptyFileApi

\* JSON values: null and strings.
JNull      == [t |-> "null", s |-> ""]
JString(s) == [t |-> "string", s |-> s]

\* serde's encoding of an Option<String>: None is null, Some(s) the string.
to_json_option(o) == IF o = NONE THEN JNull ELSE JString(o)

from_json_option(j) == IF j.t = "null" THEN NONE ELSE j.s

\* main.rs:1817  serde_json::to_string_pretty(data)
to_string_pretty(data) ==
    [valid |-> TRUE,
     classes |-> [i \in 1..Len(data.classes) |->
                    [name |-> JString(data.classes[i].name),
                     docstring |-> to_json_option(data.classes[i].docstring)]],
     enums |-> [i \in 1..Len(data.enums) |-> JString(data.enums[i])],
     functions |-> [i \in 1..Len(data.functions) |-> JString(data.functions[i])]]

\* A cache file a failed fs::write left cut short.
TruncatedJson == [to_string_pretty(EmptyFileApi) EXCEPT !.valid = FALSE]

LoadOk(data) == [ok |-> TRUE, data |-> data]
LoadErr      == [ok |-> FALSE, data |-> EmptyFileApi]

\* main.rs:1807  serde_json::from_str::<FileApi>(&cached_content)
from_str(content) ==
    IF ~content.valid THEN LoadErr
    ELSE LoadOk(FileApi(
            [i \in 1..Len(content.classes) |->
                PythonClass(content.classes[i].name.s,
                            from_json_option(content.classes[i].docstring))],
            [i \in 1..Len(content.enums) |-> content.enums[i].s],
            [i \in 1..Len(content.functions) |-> content.functions[i].s]))

\* The entry of the file under .cache (main.rs:1775-1797): absent, or a file
\* with some content.
CacheFile(content) == [exists |-> TRUE, content |-> content]
NoCacheFile        == [exists |-> FALSE, content |-> TruncatedJson]

\* main.rs:1799-1810
load_from_cache(cache) ==
    IF ~cache.exists THEN LoadErr ELSE from_str(cache.content)

\* What a save can come to: "ok" (the file holds the JSON text), "no_write"
\* (get_cache_path or opening the file failed: the entry is as it was),
\* "partial" (fs::write failed after truncating the file).
SaveOutcomes == {"ok", "no_write", "partial"}

\* main.rs:1812-1823
save_to_cache(cache, data, save) ==
    CASE save = "ok"      -> CacheFile(to_string_pretty(data))
      [] save = "partial" -> CacheFile(TruncatedJson)
      [] OTHER            -> cache

\* What one call of parse_python_file did.
ParseRecord(no_cache, result, readCache, readSource, saved) ==
    [called |-> TRUE, no_cache |-> no_cache, result |-> result,
     readCache |-> readCache, readSource |-> readSource, saved |-> saved]

NoParse ==
    [called |-> FALSE, no_cache |-> FALSE, result |-> EmptyFileApi,
     readCache |-> FALSE, readSource |-> FALSE, saved |-> "none"]

\* parse_python_file looking in the cache whatever no_cache says.
parse_python_file_outcome_always_cached(no_cache, src, cache, tree_ok, save) ==
    LET cached == load_from_cache(cache) IN
    IF cached.ok THEN
        [call |-> ParseRecord(no_cache, cached.data, TRUE, FALSE, "none"),
         cache |-> cache]
    ELSE IF src = NONE \/ ~tree_ok THEN
        [call |-> ParseRecord(no_cache, EmptyFileApi, TRUE, TRUE, "none"),
         cache |-> cache]
    ELSE
        [call |-> ParseRecord(no_cache, extract(src), TRUE, TRUE, save),
         cache |-> save_to_cache(cache, extract(src), save)]

\* main.rs:381-454.  `src` is what fs::read_to_string finds (NONE: an error),
\* `tree_ok` whether parser.parse gives a tree, `save` what save_to_cache
\* comes to.  The record tells what the call returned, whether it looked in
\* the cache, whether it read the source and how the save it made ended
\* ("none": it made none); `cache` is the cache entry after the call.
parse_python_file_outcome(no_cache, src, cache, tree_ok, save) ==
    LET cached == load_from_cache(cache) IN
    IF ~no_cache /\ cached.ok THEN
        [call |-> ParseRecord(no_cache, cached.data, TRUE, FALSE, "none"),
         cache |-> cache]
    ELSE IF src = NONE \/ ~tree_ok THEN
        [call |-> ParseRecord(no_cache, EmptyFileApi, ~no_cache, TRUE, "none"),
         cache |-> cache]
    ELSE
        [call |-> ParseRecord(no_cache, extract(src), ~no_cache, TRUE, save),
         cache |-> save_to_cache(cache, extract(src), save)]

\* ------------------------------------------------------------------ state
VARIABLES
    world,        \* the environment connect() meets: endpoint, socket, handshake
    pc,           \* "start", "failed" (connect returned Err), "idle" (a
                  \* connection exists, no call in progress), "receiving" (a
                  \* call has sent its command and awaits receive_message)
    connResult,   \* what connect() returned
    connects,     \* socket connects attempted by connect()
    requests,     \* handshake requests handed to the transport by connect()
    ws,           \* the connection's `websocket`: "none", "Open" or "Closed"
    serverClosed, \* the peer has closed its end of the stream
    inbox,        \* frames the peer has sent and the client has not read
    wire,         \* the last command frame written to the transport
    nSent,        \* command frames written to the transport
    nReplied,     \* commands the peer has answered with a frame
    nRead,        \* frames consumed from the stream
    cur,          \* the call in progress, or the last call
    result,       \* what the call returned (Pending until it returns)
    lastItem,     \* the stream item the call's receive_message got
    nOps,         \* typed operations invoked so far
    eofSeen,      \* a receive on this connection has observed end-of-stream
    args,         \* the arguments the caller passed to that call
    env,          \* the process environment: ITERM2_COOKIE and ITERM2_KEY
    auth,         \* the Authenticator constructed, if any
    authHeader,   \* what get_auth_header last returned
    hasCreds,     \* what has_credentials last returned
    source,       \* api-parser: the content of the Python source file
    cacheFile,    \* api-parser: the file's entry under .cache
    lastParse     \* api-parser: what the last parse_python_file call did

vars == <<world, pc, connResult, connects, requests, ws, serverClosed, inbox, wire,
          nSent, nReplied, nRead, cur, result, lastItem, nOps, eofSeen,
          args, env, auth, authHeader, hasCreds, source, cacheFile, lastParse>>

authVars == <<env, auth, authHeader, hasCreds>>

parserVars == <<source, cacheFile, lastParse>>

connVars == <<world, pc, connResult, connects, requests, ws, serverClosed, inbox, wire,
              nSent, nReplied, nRead, cur, result, lastItem, nOps, eofSeen, args>>

\* The arguments of a call; a parameter the operation does not have holds NONE.
Args(profile_name, window_id, session_id, text) ==
    [profile_name |-> profile_name, window_id |-> window_id,
     session_id |-> session_id, text |-> text]

NoArgs == Args(NONE, NONE, NONE, NONE)

NoCall == [op |-> "none", wrote |-> FALSE, seq |-> 0]

Init ==
    /\ world \in [exists : BOOLEAN, stream_ok : BOOLEAN, hs : HandshakeOutcomes]
    /\ pc = "start"
    /\ connResult = ConnPending
    /\ connects = 0
    /\ requests = <<>>
    /\ ws = "none"
    /\ serverClosed = FALSE
    /\ inbox = <<>>
    /\ wire = NoMessage
    /\ nSent = 0
    /\ nReplied = 0
    /\ nRead = 0
    /\ cur = NoCall
    /\ result = Pending
    /\ lastItem = NoItem
    /\ nOps = 0
    /\ eofSeen = FALSE
    /\ args = NoArgs
    /\ env \in [cookie : Cookies \cup {NONE}, key : Keys \cup {NONE}]
    /\ auth = NoAuthenticator
    /\ authHeader = NoHeaderCall
    /\ hasCreds = NoCredsCall
    /\ source = InitialSource
    /\ cacheFile = NoCacheFile
    /\ lastParse = NoParse

\* ---------------------------------------------------------------- connect
\* connection.rs:39-89
connect ==
    /\ pc = "start"
    /\ LET o == connect_outcome(world.exists, world.stream_ok, world.hs) IN
        /\ connResult' = o.result
        /\ connects' = o.connects
        /\ requests' = o.requests
        /\ pc' = IF o.result.ok THEN "idle" ELSE "failed"
        /\ ws' = IF o.result.ok THEN "Open" ELSE "none"
    /\ UNCHANGED <<args, authVars, parserVars, world, serverClosed, inbox, wire, nSent, nReplied, nRead, cur,
                   result, lastItem, nOps, eofSeen>>

\* ------------------------------------------------------- typed operations
\* What the transport's send reports for a frame: a stream that has ended
\* accepts no frame; an open one may fail the write.
WriteError(wfail) ==
    IF ws # "Open" THEN "AlreadyClosed" ELSE IF wfail THEN "Io" ELSE ""

\* An operation that writes its command frame twice.
Invoke_resend(op, message, wfail) ==
    /\ pc = "idle"
    /\ nOps < MaxOps
    /\ LET werr == WriteError(wfail)
           sent == send_message(werr)
       IN
        /\ nSent' = IF werr = "" THEN nSent + 2 ELSE nSent
        /\ wire' = IF werr = "" THEN message ELSE wire
        /\ cur' = [op |-> op, wrote |-> (werr = ""), seq |-> nSent']
        /\ pc' = IF sent.ok THEN "receiving" ELSE "idle"
        /\ result' = IF sent.ok THEN Pending ELSE sent
    /\ nOps' = nOps + 1
    /\ lastItem' = NoItem
    /\ UNCHANGED <<authVars, parserVars, world, connResult, connects, requests, ws, serverClosed, inbox,
                   nReplied, nRead, eofSeen>>

\* An operation that goes on to receive_message although its send failed.
Invoke_read_anyway(op, message, wfail) ==
    /\ pc = "idle"
    /\ nOps < MaxOps
    /\ LET werr == WriteError(wfail) IN
        /\ nSent' = IF werr = "" THEN nSent + 1 ELSE nSent
        /\ wire' = IF werr = "" THEN message ELSE wire
        /\ cur' = [op |-> op, wrote |-> (werr = ""), seq |-> nSent']
        /\ pc' = "receiving"
        /\ result' = Pending
    /\ nOps' = nOps + 1
    /\ lastItem' = NoItem
    /\ UNCHANGED <<authVars, parserVars, world, connResult, connects, requests, ws,
                   serverClosed, inbox, nReplied, nRead, eofSeen>>

\* The part every typed operation shares up to its first suspension:
\* `self.send_message(message).await?;` writes the frame, and on an error
\* the operation returns it without reading.
Invoke(op, message, wfail) ==
    /\ pc = "idle"
    /\ nOps < MaxOps
    /\ LET werr == WriteError(wfail)
           sent == send_message(werr)
       IN
        /\ nSent' = IF werr = "" THEN nSent + 1 ELSE nSent
        /\ wire' = IF werr = "" THEN message ELSE wire
        /\ cur' = [op |-> op, wrote |-> (werr = ""), seq |-> nSent']
        /\ pc' = IF sent.ok THEN "receiving" ELSE "idle"
        /\ result' = IF sent.ok THEN Pending ELSE sent
    /\ nOps' = nOps + 1
    /\ lastItem' = NoItem
    /\ UNCHANGED <<authVars, parserVars, world, connResult, connects, requests, ws, serverClosed, inbox,
                   nReplied, nRead, eofSeen>>

\* An operation that writes its command and returns Ok without reading the
\* reply.
FireAndForget(op, message, wfail) ==
    /\ pc = "idle"
    /\ nOps < MaxOps
    /\ LET werr == WriteError(wfail)
           sent == send_message(werr)
       IN
        /\ nSent' = IF werr = "" THEN nSent + 1 ELSE nSent
        /\ wire' = IF werr = "" THEN message ELSE wire
        /\ cur' = [op |-> op, wrote |-> (werr = ""), seq |-> nSent']
        /\ pc' = "idle"
        /\ result' = IF sent.ok THEN (IF op = "send_text" THEN OkUnit ELSE VecResult(<<>>))
                     ELSE sent
    /\ nOps' = nOps + 1
    /\ lastItem' = NoItem
    /\ UNCHANGED <<authVars, parserVars, world, connResult, connects, requests, ws, serverClosed, inbox,
                   nReplied, nRead, eofSeen>>

\* connection.rs:135-145
create_window(profile_name) ==
    /\ \E wfail \in BOOLEAN :
        Invoke("create_window", CreateTabRequest(profile_name, NONE), wfail)
    /\ args' = Args(profile_name, NONE, NONE, NONE)

\* create_tab without `request.set_window_id(..)`.
create_tab_nowindow(profile_name, window_id) ==
    /\ \E wfail \in BOOLEAN :
        Invoke("create_tab", CreateTabRequest(profile_name, NONE), wfail)
    /\ args' = Args(profile_name, window_id, NONE, NONE)

\* connection.rs:196-210
create_tab(profile_name, window_id) ==
    /\ \E wfail \in BOOLEAN :
        Invoke("create_tab", CreateTabRequest(profile_name, window_id), wfail)
    /\ args' = Args(profile_name, window_id, NONE, NONE)

send_text_nowait(session_id, text) ==
    /\ \E wfail \in BOOLEAN :
        FireAndForget("send_text", SendTextRequest(session_id, text), wfail)
    /\ args' = Args(NONE, NONE, session_id, text)

\* send_text sending `text.trim()`.
send_text_trim(session_id, text) ==
    /\ \E wfail \in BOOLEAN :
        Invoke("send_text",
               SendTextRequest(session_id, IF text = "ls\r" THEN "ls" ELSE text), wfail)
    /\ args' = Args(NONE, NONE, session_id, text)

\* connection.rs:261-269
send_text(session_id, text) ==
    /\ \E wfail \in BOOLEAN :
        Invoke("send_text", SendTextRequest(session_id, text), wfail)
    /\ args' = Args(NONE, NONE, session_id, text)

list_sessions_nowait ==
    /\ \E wfail \in BOOLEAN : FireAndForget("list_sessions", ListSessionsRequest, wfail)
    /\ args' = NoArgs

\* connection.rs:315-321
list_sessions ==
    /\ \E wfail \in BOOLEAN : Invoke("list_sessions", ListSessionsRequest, wfail)
    /\ args' = NoArgs

\* connection.rs:368-374
get_windows ==
    /\ \E wfail \in BOOLEAN : Invoke("get_windows", ListSessionsRequest, wfail)
    /\ args' = NoArgs

\* The call in progress resumes with the item `self.websocket.next()` gave
\* and returns.
Return(item) ==
    /\ pc = "receiving"
    /\ result' = operation_result(cur.op, item)
    /\ lastItem' = item
    /\ pc' = "idle"

\* A call that leaves the frame in the stream when it returns an error.
receive_frame_peek ==
    /\ inbox # <<>>
    /\ LET f == Head(inbox)
           item == IF f.ftype = "Invalid" THEN StreamErr(f, "Protocol") ELSE StreamOk(f)
           consumed == operation_result(cur.op, item).ok
       IN
        /\ Return(item)
        /\ inbox' = IF consumed THEN Tail(inbox) ELSE inbox
        /\ nRead' = IF consumed THEN nRead + 1 ELSE nRead
    /\ UNCHANGED <<args, authVars, parserVars, world, connResult, connects, requests, ws,
                   serverClosed, wire, nSent, nReplied, cur, nOps, eofSeen>>

\* A call that drops a frame that is not Binary and waits for the next one.
receive_frame_skip_nonbinary ==
    /\ inbox # <<>>
    /\ pc = "receiving"
    /\ LET f == Head(inbox) IN
        IF f.ftype \in NonBinary
        THEN UNCHANGED <<pc, result, lastItem>>
        ELSE Return(IF f.ftype = "Invalid" THEN StreamErr(f, "Protocol") ELSE StreamOk(f))
    /\ inbox' = Tail(inbox)
    /\ nRead' = nRead + 1
    /\ UNCHANGED <<args, authVars, parserVars, world, connResult, connects, requests, ws,
                   serverClosed, wire, nSent, nReplied, cur, nOps, eofSeen>>

\* The stream delivers the next frame the peer sent.
receive_frame ==
    /\ inbox # <<>>
    /\ LET f == Head(inbox) IN
        Return(IF f.ftype = "Invalid" THEN StreamErr(f, "Protocol") ELSE StreamOk(f))
    /\ inbox' = Tail(inbox)
    /\ nRead' = nRead + 1
    /\ UNCHANGED <<args, authVars, parserVars, world, connResult, connects, requests, ws, serverClosed, wire,
                   nSent, nReplied, cur, nOps, eofSeen>>

\* A call that gives up waiting although the stream has not ended.
receive_eof_timeout ==
    /\ inbox = <<>>
    /\ Return(StreamNone)
    /\ ws' = "Closed"
    /\ eofSeen' = TRUE
    /\ UNCHANGED <<args, authVars, parserVars, world, connResult, connects, requests,
                   serverClosed, inbox, wire, nSent, nReplied, nRead, cur, nOps>>

\* The stream has ended: next() gives None, now and from then on.
receive_eof ==
    /\ inbox = <<>>
    /\ serverClosed \/ ws = "Closed"
    /\ Return(StreamNone)
    /\ ws' = "Closed"
    /\ eofSeen' = TRUE
    /\ UNCHANGED <<args, authVars, parserVars, world, connResult, connects, requests, serverClosed, inbox, wire,
                   nSent, nReplied, nRead, cur, nOps>>

\* The transport fails while the call waits: next() gives Some(Err(e)) and
\* the stream is dead.
receive_io_error ==
    /\ inbox = <<>>
    /\ ws = "Open"
    /\ Return(StreamErr(NoFrame, "Io"))
    /\ ws' = "Closed"
    /\ UNCHANGED <<args, authVars, parserVars, world, connResult, connects, requests, serverClosed, inbox, wire,
                   nSent, nReplied, nRead, cur, nOps, eofSeen>>

\* ------------------------------------------------------------ environment
\* The peer answers the oldest unanswered command with one frame.
ServerReply ==
    /\ ws = "Open"
    /\ ~serverClosed
    /\ nReplied < nSent
    /\ \E f \in ReplyFrames(nReplied + 1) : inbox' = Append(inbox, f)
    /\ nReplied' = nReplied + 1
    /\ UNCHANGED <<args, authVars, parserVars, world, pc, connResult, connects, requests, ws, serverClosed, wire,
                   nSent, nRead, cur, result, lastItem, nOps, eofSeen>>

\* The peer closes the stream.
ServerClose ==
    /\ ws = "Open"
    /\ ~serverClosed
    /\ serverClosed' = TRUE
    /\ UNCHANGED <<args, authVars, parserVars, world, pc, connResult, connects, requests, ws, inbox, wire,
                   nSent, nReplied, nRead, cur, result, lastItem, nOps, eofSeen>>

Next ==
    \/ connect
    \/ \E p \in ProfileNames \cup {NONE} : create_window(p)
    \/ \E p \in ProfileNames \cup {NONE}, w \in WindowIds : create_tab(p, w)
    \/ \E s \in SessionIds, t \in Texts : send_text(s, t)
    \/ list_sessions
    \/ get_windows
    \/ receive_frame
    \/ receive_eof
    \/ receive_io_error
    \/ ServerReply
    \/ ServerClose

Spec == Init /\ [][Next]_vars

\* ---------------------------------------------------------------- fairness
\* The peer owes an answer to a command it has not answered: a frame, or the
\* end of the stream.
RemoteAnswers == nReplied < nSent /\ (ServerReply \/ ServerClose)

\* The program under a peer that answers every command or closes, and a
\* runtime that resumes a call whose stream has an item ready
\* (connection.rs:100 `self.websocket.next().await`).
LiveSpec ==
    /\ Spec
    /\ WF_vars(RemoteAnswers)
    /\ WF_vars(receive_frame)
    /\ WF_vars(receive_eof)

\* ------------------------------------------------------- dropping a future
\* Calls dropped in flight on one connection: a call is dropped only while
\* fewer than MaxDrops replies of earlier dropped calls are unread.
MaxDrops == 1

\* Every typed operation is an `async fn (&mut self)`: the caller holds a
\* future that borrows the connection and is suspended in receive_message
\* (connection.rs:271 `self.receive_message().await`).  Dropping that future
\* (a timeout or a select! around the call) ends the call there and gives the
\* connection back to the caller.
drop_future ==
    /\ pc = "receiving"
    /\ nSent - nRead <= MaxDrops
    /\ pc' = "idle"
    /\ UNCHANGED <<args, authVars, parserVars, world, connResult, connects, requests, ws,
                   serverClosed, inbox, wire, nSent, nReplied, nRead, cur, result,
                   lastItem, nOps, eofSeen>>

NextCancel == Next \/ drop_future

CancelSpec == Init /\ [][NextCancel]_vars

\* ------------------------------------------------------------ Authenticator
\* auth.rs:10-15  Authenticator::new() reads the two variables.
Authenticator_new ==
    /\ auth' = Authenticator(env.cookie, env.key)
    /\ authHeader' = NoHeaderCall
    /\ hasCreds' = NoCredsCall
    /\ UNCHANGED <<env, connVars, parserVars>>

\* get_auth_header reading the environment when it is called.
call_get_auth_header_from_env ==
    /\ auth.made
    /\ authHeader' = get_auth_header(Authenticator(env.cookie, env.key))
    /\ UNCHANGED <<env, auth, hasCreds, connVars, parserVars>>

\* A caller asks the Authenticator for its header (auth.rs:21-29).
call_get_auth_header ==
    /\ auth.made
    /\ authHeader' = get_auth_header(auth)
    /\ UNCHANGED <<env, auth, hasCreds, connVars, parserVars>>

\* A caller asks the Authenticator whether it has credentials (auth.rs:17-19).
call_has_credentials ==
    /\ auth.made
    /\ hasCreds' = CredsResult(has_credentials(auth))
    /\ UNCHANGED <<env, auth, authHeader, connVars, parserVars>>

\* Values the process can give a variable after the Authenticator was made.
EnvValues == Cookies \cup Keys \cup {"changed", NONE}

\* The process sets or removes ITERM2_COOKIE or ITERM2_KEY, the variables
\* auth.rs:12-13 read.
set_var(name, value) ==
    /\ env' = IF name = "ITERM2_COOKIE" THEN [env EXCEPT !.cookie = value]
              ELSE [env EXCEPT !.key = value]
    /\ env' # env
    /\ UNCHANGED <<auth, authHeader, hasCreds, connVars, parserVars>>

\* The Authenticator on its own: constructed from the environment and asked
\* for its header and its credentials, in an environment that changes.
NextAuth ==
    \/ Authenticator_new
    \/ call_get_auth_header
    \/ call_has_credentials
    \/ \E name \in {"ITERM2_COOKIE", "ITERM2_KEY"}, value \in EnvValues : set_var(name, value)

AuthSpec == Init /\ [][NextAuth]_vars

\* ------------------------------------ create_tab as the crate docs call it
\* connection.rs:199  the type of create_tab's window_id parameter
create_tab_window_id_type == "&str"

\* lib.rs:23, 52, 61 and examples/advanced_tabs.rs:16, 43 call
\* create_tab(None, None) and create_tab(None, Some(&window_id)): the second
\* argument is an Option<&str> (NONE models None, a window id Some(id)).  A
\* call whose argument does not have the parameter's type is rejected when the
\* caller is built; nothing is sent.
docs_create_tab(profile_name, window_id) ==
    /\ pc = "idle"
    /\ IF create_tab_window_id_type = "Option<&str>"
       THEN \E wfail \in BOOLEAN :
                Invoke("create_tab", CreateTabRequest(profile_name, window_id), wfail)
       ELSE /\ result' = Err("Compile", "mismatched types: expected ",
                             create_tab_window_id_type)
            /\ cur' = [op |-> "create_tab", wrote |-> FALSE, seq |-> nSent]
            /\ lastItem' = NoItem
            /\ UNCHANGED <<authVars, parserVars, world, pc, connResult, connects, requests, ws,
                           serverClosed, inbox, wire, nSent, nReplied, nRead, nOps,
                           eofSeen>>
    /\ args' = Args(profile_name, window_id, NONE, NONE)

NextDocs ==
    \/ Next
    \/ \E w \in WindowIds \cup {NONE} : docs_create_tab(NONE, w)

DocSpec == Init /\ [][NextDocs]_vars

\* ------------------------------------------------------------- api-parser
\* main.rs:381-454  one call of parse_python_file for the file.
parse_python_file(no_cache) ==
    /\ \E tree_ok \in BOOLEAN, save \in SaveOutcomes :
        LET o == parse_python_file_outcome(no_cache, source, cacheFile, tree_ok, save) IN
            /\ lastParse' = o.call
            /\ cacheFile' = o.cache
    /\ UNCHANGED <<source, connVars, authVars>>

\* The source file is edited or removed between two runs (main.rs:393 reads
\* whatever the file holds then).
write_source(content) ==
    /\ content # source
    /\ source' = content
    /\ UNCHANGED <<cacheFile, lastParse, connVars, authVars>>

NextParser ==
    \/ \E no_cache \in BOOLEAN : parse_python_file(no_cache)
    \/ \E content \in Sources \cup {NONE} : write_source(content)

ParserSpec == Init /\ [][NextParser]_vars

\* ================================================================ claims
\* The response variant that answers each operation's command.
Matching(op) ==
    CASE op \in {"create_window", "create_tab"} -> "create_tab_response"
      [] op = "send_text" -> "send_text_response"
      [] OTHER -> "list_sessions_response"

\* The call has returned after its receive_message read a frame.
ReturnedWithFrame == pc = "idle" /\ lastItem.tag = "SomeOk"

\* ... a Binary frame whose bytes decode to a well-formed message.
ReturnedWithMessage ==
    /\ ReturnedWithFrame
    /\ lastItem.frame.ftype = "Binary"
    /\ lastItem.frame.data.defect = "none"

Reply == lastItem.frame.data.msg

\* A step in which an operation is invoked on a connection on which a
\* receive has already observed end-of-stream.
InvokedAfterEof == eofSeen /\ pc = "idle" /\ nOps' = nOps + 1

TagMismatch == ReturnedWithMessage /\ Reply.submessage # Matching(cur.op)

\* C4 (as stated): a well-formed response of the wrong variant makes the call
\* return a Protocol error.
C4_Original == TagMismatch => result.kind = "Protocol"

\* C4 (amended): a well-formed response of the wrong variant makes the call
\* return Error::Api("Expected <variant> response"), never a success value.
C4_WrongVariantIsApiError ==
    TagMismatch =>
        /\ ~result.ok
        /\ result.kind = "Api"
        /\ result.text \in {"Expected create tab response",
                            "Expected send text response",
                            "Expected list sessions response"}
        /\ result.value = NoValue

C4_Witness ==
    /\ TagMismatch /\ cur.op = "send_text"
    /\ Reply.submessage = "create_tab_response" /\ Reply.status = "OK"
    /\ result.text = "Expected send text response"

\* C5: a Binary reply frame whose bytes do not conform to the response schema
\* makes the operation return the decode error (Error::Protobuf); the call
\* does not go on with a default-valued response.
C5_MalformedIsDecodeError ==
    (ReturnedWithFrame /\ lastItem.frame.ftype = "Binary"
        /\ lastItem.frame.data.defect # "none")
    => (~result.ok /\ result.kind = "Protobuf" /\ result.value = NoValue)

C5_Witness ==
    /\ ReturnedWithFrame /\ lastItem.frame.ftype = "Binary"
    /\ lastItem.frame.data.defect = "truncated" /\ result.kind = "Protobuf"

\* C6: when the endpoint path does not exist, connect() returns a Connection
\* error naming the path; no socket connect is attempted and nothing is
\* written (no handshake request, no frame).
C6_MissingEndpoint ==
    (pc # "start" /\ ~world.exists) =>
        /\ pc = "failed"
        /\ ~connResult.ok /\ connResult.kind = "Connection"
        /\ connResult.path = socket_path
        /\ connects = 0 /\ requests = <<>> /\ nSent = 0 /\ ws = "none"

C6_Witness ==
    pc = "failed" /\ ~world.exists /\ connResult.path = socket_path /\ world.stream_ok

\* connect() read a handshake response whose status is not 101.
Rejected ==
    /\ pc # "start" /\ world.exists /\ world.stream_ok
    /\ ~world.hs.err /\ world.hs.status # 101

Received == pc = "receiving" /\ pc' = "idle"

Matched == ReturnedWithMessage /\ Reply.submessage = Matching(cur.op)

\* C9: the matching response with status OK makes create_window and
\* create_tab return a SessionSummary whose unique_identifier is the
\* response's session_id, and send_text return unit.
C9_OkGivesSuccess ==
    (Matched /\ Reply.status = "OK") =>
        /\ result.ok
        /\ (cur.op \in {"create_window", "create_tab"} =>
                /\ result.value.unique_identifier = Reply.session_id
                /\ result.value = [NoValue EXCEPT !.unique_identifier = Reply.session_id])
        /\ (cur.op = "send_text" => result.value.unit /\ result = OkUnit)

C9_Witness ==
    /\ Matched /\ Reply.status = "OK" /\ cur.op = "create_window"
    /\ Reply.session_id = "s2" /\ result.value.unique_identifier = "s2"

\* C10: for create_window, create_tab and send_text the matching response
\* with a status other than OK gives an Api error whose message carries that
\* status, never a success value.
C10_NonOkIsApiError ==
    (Matched /\ cur.op \in {"create_window", "create_tab", "send_text"}
        /\ Reply.status # "OK")
    => /\ ~result.ok
       /\ result.kind = "Api"
       /\ result.detail = Reply.status
       /\ result.value = NoValue

C10_Witness ==
    /\ Matched /\ cur.op = "create_tab" /\ Reply.status = "INVALID_WINDOW_ID"
    /\ result.kind = "Api" /\ result.detail = "INVALID_WINDOW_ID"

\* An operation has returned an error.
ReturnedError == pc = "idle" /\ cur.op # "none" /\ ~result.ok

\* The call's send failed: no frame was written and nothing was read.
SendFailed == ReturnedError /\ ~cur.wrote

Malformed ==
    /\ ReturnedWithFrame /\ lastItem.frame.ftype = "Binary"
    /\ lastItem.frame.data.defect # "none"

NonOk == Matched /\ Reply.status # "OK" /\ cur.op \in {"create_window", "create_tab", "send_text"}

\* C11 (as stated): every error is a Connection, Decode, Protocol or Api
\* error; a transport failure on write or read and a closed stream are
\* Connection errors, a malformed frame a Decode error, a frame of unexpected
\* variant a Protocol error, a non-OK status an Api error.
C11_Original ==
    /\ (pc = "failed" => connResult.kind = "Connection")
    /\ (ReturnedError => result.kind \in {"Connection", "Protobuf", "Protocol", "Api"})
    /\ (SendFailed => result.kind = "Connection")
    /\ ((ReturnedError /\ lastItem.tag \in {"SomeErr", "None"}) => result.kind = "Connection")
    /\ ((ReturnedError /\ Malformed) => result.kind = "Protobuf")
    /\ ((ReturnedError /\ TagMismatch) => result.kind = "Protocol")
    /\ ((ReturnedError /\ NonOk) => result.kind = "Api")

\* C11 (amended): every error is an Error::Connection, Error::WebSocket,
\* Error::Protobuf or Error::Api.  Every failure of connect(), a closed stream
\* and a frame that is not Binary are Connection; a transport failure on write
\* or read is WebSocket; a malformed frame is Protobuf; a frame of unexpected
\* variant and a non-OK status are Api.
C11_ErrorKinds ==
    /\ (pc = "failed" => (~connResult.ok /\ connResult.kind = "Connection"))
    /\ (ReturnedError => result.kind \in {"Connection", "WebSocket", "Protobuf", "Api"})
    /\ (SendFailed => result.kind = "WebSocket")
    /\ ((ReturnedError /\ lastItem.tag = "SomeErr") => result.kind = "WebSocket")
    /\ ((ReturnedError /\ lastItem.tag = "None") => result.kind = "Connection")
    /\ ((ReturnedError /\ ReturnedWithFrame /\ lastItem.frame.ftype # "Binary")
            => result.kind = "Connection")
    /\ ((ReturnedError /\ Malformed) => result.kind = "Protobuf")
    /\ ((ReturnedError /\ TagMismatch) => result.kind = "Api")
    /\ ((ReturnedError /\ NonOk) => result.kind = "Api")

C11_Witness ==
    /\ SendFailed /\ ws = "Open" /\ result.kind = "WebSocket" /\ result.detail = "Io"

\* The names of the two authorization headers.
AuthHeaderNames == {"iTerm2-Auth-Cookie", "iTerm2-Auth-Key"}

AuthHeadersOf(request) == {h \in request : h[1] \in AuthHeaderNames}

\* C12: the handshake request connect() sends carries an authorization header
\* holding the credential when the environment supplies a cookie or a key,
\* and none when it supplies neither.
C12_AuthHeaderSent ==
    \A i \in 1..Len(requests) :
        /\ (env.cookie # NONE =>
                AuthHeadersOf(requests[i]) = {<<"iTerm2-Auth-Cookie", env.cookie>>})
        /\ ((env.cookie = NONE /\ env.key # NONE) =>
                AuthHeadersOf(requests[i]) = {<<"iTerm2-Auth-Key", env.key>>})
        /\ ((env.cookie = NONE /\ env.key = NONE) => AuthHeadersOf(requests[i]) = {})

\* get_auth_header has been called on the Authenticator.
HeaderAsked == auth.made /\ authHeader # NoHeaderCall

\* C13: get_auth_header gives the cookie header when a cookie is present,
\* with or without a key; the key header when only a key is present; None
\* when neither is.
C13_CookiePrecedence ==
    HeaderAsked =>
        /\ (auth.cookie # NONE =>
                authHeader = SomeHeader("iTerm2-Auth-Cookie", auth.cookie))
        /\ ((auth.cookie = NONE /\ auth.key # NONE) =>
                authHeader = SomeHeader("iTerm2-Auth-Key", auth.key))
        /\ ((auth.cookie = NONE /\ auth.key = NONE) => ~authHeader.some)

C13_Witness ==
    /\ HeaderAsked /\ auth.cookie = "cookie1" /\ auth.key = "key1"
    /\ authHeader.some /\ authHeader.name = "iTerm2-Auth-Cookie"
    /\ authHeader.value = "cookie1"

\* The call in progress or last returned wrote its command frame.
Wrote(op) == cur.op = op /\ cur.wrote

\* C14: create_window writes a CreateTab request without window_id,
\* create_tab one whose window_id is the argument; in both the request has a
\* profile_name exactly when the caller gave one, with that value.
C14_CreateTabRequest ==
    /\ (Wrote("create_window") =>
            /\ wire.submessage = "create_tab_request"
            /\ wire.window_id = NONE
            /\ wire.profile_name = args.profile_name)
    /\ (Wrote("create_tab") =>
            /\ wire.submessage = "create_tab_request"
            /\ wire.window_id # NONE /\ wire.window_id = args.window_id
            /\ wire.profile_name = args.profile_name)

C14_Witness ==
    /\ Wrote("create_tab") /\ args.profile_name = NONE /\ args.window_id = "w2"
    /\ wire.window_id = "w2" /\ wire.profile_name = NONE

\* C15: create_tab called as the crate docs call it, with an optional window
\* id, is accepted; without a window id it sends a CreateTab request with no
\* window_id, with one it sends that window id.
C15_OptionalWindowAccepted ==
    (pc = "idle" /\ cur.op = "create_tab") =>
        /\ result.kind # "Compile"
        /\ (cur.wrote => wire.window_id = args.window_id)

\* The set of the elements of a sequence.
Elems(seq) == {seq[i] : i \in 1..Len(seq)}

\* The sessions nested in the windows of a window list.
NestedSessions(windows) ==
    UNION {UNION {Elems(w.tabs[j]) : j \in 1..Len(w.tabs)} : w \in Elems(windows)}

\* C16: on a ListSessions response list_sessions returns the buried-session
\* list, in order and with nothing added; a session nested in a window is in
\* the result only if it is buried too.
C16_BuriedOnly ==
    (Matched /\ cur.op = "list_sessions") =>
        /\ result.ok
        /\ result.value.list = Reply.buried_sessions
        /\ \A s \in NestedSessions(Reply.windows) :
                s \in Elems(result.value.list) => s \in Elems(Reply.buried_sessions)

C16_Witness ==
    /\ Matched /\ cur.op = "list_sessions"
    /\ Reply.windows = <<Window1>> /\ Reply.buried_sessions = <<Summary("s2")>>
    /\ result.value.list = <<Summary("s2")>>

\* C17: get_windows writes the request list_sessions writes, returns the
\* response's window list unchanged, and returns an error, not an empty
\* list, for a response of another variant.
C17_WindowsAsIs ==
    /\ ((Wrote("get_windows") \/ Wrote("list_sessions")) => wire = ListSessionsRequest)
    /\ ((Matched /\ cur.op = "get_windows") =>
            (result.ok /\ result.value.list = Reply.windows))
    /\ ((TagMismatch /\ cur.op = "get_windows") => ~result.ok)

C17_Witness ==
    /\ Matched /\ cur.op = "get_windows" /\ wire = ListSessionsRequest
    /\ Reply.windows = <<Window2, Window1>> /\ result.value.list = <<Window2, Window1>>

\* C18: the SendText request send_text writes has the session_id argument as
\* its session and the text argument, unaltered, as its text.
C18_TextVerbatim ==
    Wrote("send_text") =>
        /\ wire.submessage = "send_text_request"
        /\ wire.session = args.session_id
        /\ wire.text = args.text

C18_Witness ==
    /\ Wrote("send_text") /\ args.text = "ls\r" /\ wire.text = "ls\r"
    /\ args.session_id = "s2" /\ wire.session = "s2"

\* C19 (as stated): every invocation writes exactly one frame and reads at
\* most one.
C19_Original ==
    /\ (pc = "idle" => nSent = nOps)
    /\ nRead <= nOps

\* C19 (amended): every invocation makes one send, which writes one frame
\* unless it fails, and reads at most one frame; a frame is written only when
\* an operation is invoked, a frame is read only by the step in which the
\* call returns, and a call whose send failed reads nothing.
C19_OneWriteOneRead ==
    /\ [](nSent <= nOps /\ nRead <= nSent)
    /\ [](SendFailed => (lastItem = NoItem /\ result.kind = "WebSocket"))
    /\ [][/\ nSent' - nSent \in {0, 1}
          /\ nRead' - nRead \in {0, 1}
          /\ (nSent' # nSent => (pc = "idle" /\ nOps' = nOps + 1 /\ cur'.wrote))
          /\ (nOps' # nOps => (nOps' = nOps + 1 /\ (cur'.wrote <=> nSent' = nSent + 1)))
          /\ (nRead' # nRead => (pc = "receiving" /\ pc' = "idle"))
          /\ ((pc = "receiving" /\ pc' # "receiving") =>
                  (pc' = "idle" /\ nSent' = nSent /\ nOps' = nOps))]_vars

C19_Witness ==
    /\ ReturnedError /\ cur.wrote /\ result.kind = "Api"
    /\ nOps = 1 /\ nSent = 1 /\ nRead = 1

\* C20: when the endpoint exists and the socket connect fails, connect()
\* returns a Connection error for the I/O failure after one connect attempt
\* and sends no handshake request.
C20_SocketConnectFails ==
    (pc # "start" /\ world.exists /\ ~world.stream_ok) =>
        /\ pc = "failed" /\ ws = "none"
        /\ ~connResult.ok /\ connResult.kind = "Connection"
        /\ connResult.text = "Failed to connect to Unix domain socket: "
        /\ connects = 1
        /\ requests = <<>>

C20_Witness ==
    /\ pc = "failed" /\ world.exists /\ ~world.stream_ok /\ connects = 1
    /\ connResult.text = "Failed to connect to Unix domain socket: "

\* C21: connect() returns a connection only when the endpoint existed, the
\* socket connect succeeded, one handshake request was sent and the response
\* read had status 101; when connect() fails there is no connection.
C21_ConnectionOnlyAfterHandshake ==
    /\ (connResult.ok =>
            /\ world.exists /\ world.stream_ok
            /\ ~world.hs.err /\ world.hs.status = SWITCHING_PROTOCOLS
            /\ connects = 1
            /\ Len(requests) = 1)
    /\ (ws # "none" <=> connResult.ok)
    /\ (pc \in {"idle", "receiving"} <=> connResult.ok)
    /\ (pc = "failed" => (~connResult.ok /\ connResult.kind = "Connection" /\ ws = "none"))

C21_Witness ==
    /\ pc = "idle" /\ connResult.ok /\ ws = "Open" /\ nOps = 0
    /\ Len(requests) = 1 /\ world.hs.status = 101

\* The call waits and the stream has nothing for it: no frame, no end.
Waiting == pc = "receiving" /\ inbox = <<>> /\ ~serverClosed /\ ws = "Open"

\* C22: a call that has sent its command has no result while it waits, and
\* it stops waiting only in a step in which the stream hands it an item: a
\* frame the peer delivered, the end of the stream the peer closed, or an
\* error of the transport.  No step ends the wait for the passing of time.
C22_NoTimeout ==
    /\ [](pc = "receiving" => (result = Pending /\ cur.wrote /\ lastItem = NoItem))
    /\ [][(pc = "receiving" /\ pc' # "receiving") =>
            /\ lastItem' # NoItem
            /\ (inbox # <<>> \/ serverClosed \/ lastItem'.tag = "SomeErr")]_vars
    /\ [][(Waiting /\ Waiting') => UNCHANGED <<pc, result, lastItem>>]_vars

C22_Witness == Waiting /\ result = Pending /\ nOps = 2 /\ nSent = 2 /\ nRead = 1

\* A call's command was written, its reply was never read, and no call is
\* in progress.
Abandoned == pc = "idle" /\ cur.wrote /\ result = Pending /\ lastItem = NoItem

\* C23: there is no state in which an operation was abandoned after its
\* command was written and before its reply was read while the connection
\* is still open for a later operation.
C23_NoAbandonedCall == ~(Abandoned /\ ws = "Open")

\* C24: on one Authenticator, two calls of get_auth_header give the same
\* result and two calls of has_credentials give the same result, whatever
\* was done to the environment variables in between; a change of the
\* environment changes neither the Authenticator nor a result it gave.
C24_FixedAtConstruction ==
    /\ [][(auth.made /\ auth' = auth) =>
            /\ ((HeaderAsked /\ HeaderAsked') => authHeader' = authHeader)
            /\ ((hasCreds.called /\ hasCreds'.called) => hasCreds' = hasCreds)]_vars
    /\ [][env' # env => UNCHANGED <<auth, authHeader, hasCreds>>]_vars
    /\ [](HeaderAsked =>
            (authHeader.some => authHeader.value \in {auth.cookie, auth.key}))

C24_Witness ==
    /\ auth.made /\ auth.cookie = "cookie1" /\ auth.key = NONE
    /\ env.cookie = "changed" /\ env.key = "key1"
    /\ HeaderAsked /\ authHeader.name = "iTerm2-Auth-Cookie" /\ authHeader.value = "cookie1"
    /\ hasCreds.called /\ hasCreds.value

\* The call returned an error after its receive_message read a Binary frame:
\* malformed bytes, a message of another variant, or a status that is not OK.
FailedOnReply == ReturnedError /\ (Malformed \/ TagMismatch \/ NonOk)

\* C25: a call that fails on a malformed frame, a wrong variant or a non-OK
\* status has read one frame, the reply to its own command, and leaves the
\* connection open with nothing outstanding; the next operation writes its
\* command as the next in sequence and the frame it reads is the reply to it.
C25_ErrorsKeepInStep ==
    /\ [](FailedOnReply =>
            /\ ws = "Open"
            /\ inbox = <<>>
            /\ nRead = nSent /\ nReplied = nSent
            /\ lastItem.frame.re = cur.seq)
    /\ [][(pc = "receiving" /\ FailedOnReply') =>
            /\ nRead' = nRead + 1
            /\ inbox' = Tail(inbox)
            /\ ws' = ws]_vars
    /\ [][(FailedOnReply /\ nOps' = nOps + 1 /\ cur'.wrote) =>
            /\ pc' = "receiving"
            /\ nSent' = nSent + 1
            /\ cur'.seq = nSent + 1]_vars
    /\ []((pc = "receiving" /\ inbox # <<>>) => Head(inbox).re = cur.seq)

C25_Witness ==
    /\ FailedOnReply /\ Malformed /\ result.kind = "Protobuf"
    /\ nOps = 2 /\ nSent = 2 /\ nRead = 2 /\ lastItem.frame.re = 2 /\ ws = "Open"

\* The call returned after reading a frame that is not Binary.
ReadNonBinary == ReturnedWithFrame /\ lastItem.frame.ftype \in NonBinary

\* C26: a call whose reply frame is a Text, Ping, Pong or Close frame returns
\* Error::Connection("Unexpected message type: ..."), no success value, and
\* has read that one frame only.
C26_NonBinaryIsConnectionError ==
    /\ [](ReadNonBinary =>
            /\ ~result.ok
            /\ result.kind = "Connection"
            /\ result.text = "Unexpected message type: "
            /\ result.detail = lastItem.frame.ftype
            /\ result.value = NoValue)
    /\ [][(pc = "receiving" /\ inbox # <<>> /\ Head(inbox).ftype \in NonBinary
           /\ nRead' # nRead) =>
            /\ pc' = "idle"
            /\ nRead' = nRead + 1
            /\ lastItem'.frame = Head(inbox)]_vars

C26_Witness ==
    /\ ReadNonBinary /\ lastItem.frame.ftype = "Ping"
    /\ result.kind = "Connection" /\ result.detail = "Ping" /\ nRead = 1

\* C27: an operation whose send fails returns the send's error in the step
\* that invokes it, without reading: no frame is consumed and no call is
\* left waiting for a reply to a command that was not written.
C27_SendFailureReturnsAtOnce ==
    /\ [][(nOps' = nOps + 1 /\ ~cur'.wrote) =>
            /\ pc' = "idle"
            /\ ~result'.ok /\ result'.kind = "WebSocket"
            /\ lastItem' = NoItem
            /\ nRead' = nRead /\ inbox' = inbox /\ nSent' = nSent]_vars
    /\ [](~cur.wrote => pc # "receiving")

C27_Witness ==
    /\ SendFailed /\ result.detail = "Io" /\ lastItem = NoItem
    /\ nOps = 2 /\ nSent = 1 /\ nRead = 1

\* C28: under a peer that answers every command with a frame or closes the
\* stream, every call that has sent its command returns, with a success
\* value or an error.
C28_EveryCallReturns == (pc = "receiving") ~> (pc = "idle" /\ result # Pending)

C28_Witness ==
    /\ pc = "idle" /\ result.ok /\ nOps = MaxOps /\ nSent = MaxOps /\ nRead = MaxOps

\* C29: on one Authenticator has_credentials is true exactly when
\* get_auth_header gives a header.
C29_CredentialsIffHeader ==
    (HeaderAsked /\ hasCreds.called) => (hasCreds.value <=> authHeader.some)

C29_Witness ==
    /\ HeaderAsked /\ hasCreds.called /\ auth.cookie = NONE /\ auth.key = "key1"
    /\ hasCreds.value /\ authHeader.some /\ authHeader.name = "iTerm2-Auth-Key"

\* What parsing a readable source can give.
ParseResults == {extract(src) : src \in Sources}

\* The cache entry holds the JSON text of data.
Saved(data) == cacheFile.exists /\ cacheFile.content = to_string_pretty(data)

\* A step in which parse_python_file was called.
ParseStep == lastParse'.called /\ (lastParse' # lastParse \/ cacheFile' # cacheFile)

====
